---- MODULE Spec2Model ----
(***************************************************************************)
(* BitwardenFullClient (src/core/bitwarden_full.py) together with the      *)
(* config store it persists into (src/core/config.py) and the identity /   *)
(* vault server it talks to.  Cryptography is symbolic: a key, a digest or *)
(* a ciphertext is the term that records how it was computed, so that two  *)
(* values are equal exactly when they were computed from the same inputs.  *)
(***************************************************************************)
EXTENDS Integers, Sequences, FiniteSets, TLC

VARIABLES client, store, requests, log, decs, last

vars == <<client, store, requests, log, decs, last>>

(***************************************************************************)
(* Values.  Every Python value is a record tagged by t; None is one of     *)
(* them.                                                                   *)
(***************************************************************************)
None == [t |-> "None"]

Str(s) == [t |-> "str", s |-> s]

\* Python truthiness of None, str and bytes: None, "" and b"" are falsy
Truthy(v) ==
    /\ v # None
    /\ ("len" \in DOMAIN v => v.len > 0)
    /\ (v.t = "str" => v.s # "")

(***************************************************************************)
(* Bounds of the model.                                                    *)
(***************************************************************************)
\* number of cipher items the /sync response carries at most
MaxCiphers == 1

(***************************************************************************)
(* The world: two accounts on the server and what the user may type.       *)
(***************************************************************************)
\* what the user types as e-mail address: Alice capitalises hers
Emails == {"Alice@x.io", "bob@x.io"}

Passwords == {"pw1", "pw2"}

\* str.lower() on the e-mail addresses of the model
Lower(e) == IF e = "Alice@x.io" THEN "alice@x.io" ELSE e

RealPassword(acct) == IF acct = "alice@x.io" THEN "pw1" ELSE "pw2"

\* the iteration count the pre-login endpoint advertises for an account
RealIterations(acct) == IF acct = "alice@x.io" THEN 600000 ELSE 100000

\* length in bytes of the account's SymmetricKey (64: official, 32: legacy)
SymKeyLen(acct) == IF acct = "alice@x.io" THEN 64 ELSE 32

DEFAULT_KDF_ITERATIONS == 100000

DEFAULT_IDENTITY_URL == Str("https://identity.bitwarden.com")

DEFAULT_API_URL == Str("https://api.bitwarden.com")

(***************************************************************************)
(* Key derivation and expansion.                                           *)
(***************************************************************************)
\* PBKDF2-HMAC-SHA256(password, salt, iterations), 32 bytes
_derive_key(password, salt, iterations) ==
    [t |-> "pbkdf2", pw |-> password, salt |-> salt, iter |-> iterations,
     len |-> 32]

_make_master_key(password, email_, kdf_iterations) ==
    _derive_key(password, Str(Lower(email_.s)), kdf_iterations)

\* a hash step that hands the password through
_hash_password_plain(password, master_key) == password

\* base64(PBKDF2(master_key, password, 1))
_hash_password(password, master_key) ==
    [t |-> "b64", of |-> _derive_key(master_key, password, 1)]

\* key[from : from + n] of a byte string
Slice(key, from, n) ==
    LET avail == IF key.len > from THEN key.len - from ELSE 0
        m     == IF n < avail THEN n ELSE avail
    IN  IF from = 0 /\ m = key.len THEN key
        ELSE [t |-> "slice", of |-> key, from |-> from, len |-> m]

\* HMAC-SHA256(key, msg).digest()
Hmac(key, msg) == [t |-> "hmac", key |-> key, msg |-> msg, len |-> 32]

_expand_key(key) ==
    IF key.len = 64 THEN <<Slice(key, 0, 32), Slice(key, 32, 32)>>
    ELSE IF key.len = 32
         THEN <<Slice(Hmac(key, Str("enc|01")), 0, 32),
                Slice(Hmac(key, Str("mac|01")), 0, 32)>>
         ELSE <<Slice(key, 0, 32), Slice(key, 0, 32)>>

(***************************************************************************)
(* Cipher strings "<encType>.<iv>|<data>[|<mac>]".  A cipher string is the *)
(* pair of what split('.') and split('|') see: the number of '.' parts,    *)
(* the encType and the sequence of '|' sub-parts.                          *)
(***************************************************************************)
\* AES-256-CBC ciphertext of PKCS7-padded pt under key and iv: pad is the
\* value of the last byte of the padded block, padok says that the final pad
\* bytes all equal pad
Aes(key, iv, pt) ==
    [t |-> "aes", key |-> key, iv |-> iv, pt |-> pt,
     pad |-> 16 - (pt.len % 16), padok |-> TRUE]

\* ciphertext of a block that is not PKCS7-padded: its last byte is pad, and
\* left is what block[:-pad] leaves of it
BadlyPadded(key, iv, left, pad) ==
    [t |-> "aes", key |-> key, iv |-> iv, pt |-> left,
     pad |-> pad, padok |-> FALSE]

\* the bytes iv + data that the MAC covers
MacInput(iv, data) == [t |-> "concat", a |-> iv, b |-> data]

Iv(n) == [t |-> "iv", n |-> n, len |-> 16]

\* what a correct implementation produces for pt under (enc, mac)
Encrypt(encType, iv, pt, enc, mac) ==
    LET data == Aes(enc, iv, pt)
    IN  [t |-> "cs", dots |-> 2, encType |-> encType,
         cipher_parts |-> <<iv, data, Hmac(mac, MacInput(iv, data))>>]

\* the same string with one byte of its MAC component flipped
FlipMac(cs) ==
    [cs EXCEPT !.cipher_parts[3] = [t |-> "flipped", of |-> @, len |-> 32]]

\* UTF-8 bytes of a text
Utf8(s) ==
    [t |-> "bytes", utf8 |-> TRUE, s |-> s, len |-> IF s = "" THEN 0 ELSE 6]

\* What AES-CBC gives under a key the data was not made with, after
\* decrypted[:-decrypted[-1]]: nothing (last byte 0 or >= the length), or
\* some bytes that may or may not happen to be valid UTF-8.  pad is the last
\* byte of the block before the strip; its padding bytes do not match.
GarbageOutcomes ==
    {[t |-> "bytes", utf8 |-> TRUE,  s |-> "",    len |-> 0,  pad |-> 0],
     [t |-> "bytes", utf8 |-> FALSE, s |-> "?",   len |-> 24, pad |-> 8],
     [t |-> "bytes", utf8 |-> TRUE,  s |-> "x#q", len |-> 24, pad |-> 8]}

\* decryptor.update(data) + finalize(), then the padding strip
AesDecrypt(data, key, iv, g) ==
    IF data.key = Slice(key, 0, 32) /\ data.iv = iv THEN data.pt ELSE g

\* bytes.decode('utf-8'): the text, or Raise when the bytes are not UTF-8
Raise == [t |-> "raise"]

Decode(b) == IF b.t = "bytes" /\ b.utf8 THEN Str(b.s) ELSE Raise

\* one call of a decrypt function, as recorded in decs
DecCall(fn, cs, mac_key, out) ==
    [fn |-> fn, cs |-> cs, mac_key |-> mac_key, out |-> out]

\* print(f"...{value}"): value reaches the log
LogEntry(what, value) == [what |-> what, value |-> value]

\* print(f"...{value[:8].hex()}"): the first 8 bytes of value reach the log
Hex8(what, value) == LogEntry(what, Slice(value, 0, 8))

_decrypt_bytes_with_keys(encrypted_string, enc_key, mac_key, g) ==
    IF ~Truthy(encrypted_string) THEN [out |-> None, log |-> {}]
    ELSE IF encrypted_string.dots # 2 THEN [out |-> None, log |-> {}]
    ELSE IF Len(encrypted_string.cipher_parts) < 2
         THEN [out |-> None, log |-> {}]
    ELSE
      LET enc_type == encrypted_string.encType
          cipher_parts == encrypted_string.cipher_parts
          iv   == cipher_parts[1]
          data == cipher_parts[2]
          mac  == IF Len(cipher_parts) > 2 THEN cipher_parts[3] ELSE None
          computed_mac == Hmac(mac_key, MacInput(iv, data))
      IN  IF Truthy(mac) /\ Truthy(mac_key) /\ mac # computed_mac
          THEN [out |-> None,
                log |-> {Hex8("computed_mac", computed_mac),
                         Hex8("expected_mac", mac)}]
          ELSE IF enc_type = 0 \/ enc_type = 2
               THEN [out |-> AesDecrypt(data, enc_key, iv, g), log |-> {}]
               ELSE [out |-> None, log |-> {}]

\* self is the client; key=None always, as every caller leaves it
_decrypt_string(self, encrypted_string, g) ==
    IF ~Truthy(encrypted_string) THEN [out |-> None, log |-> {}]
    ELSE IF encrypted_string.dots # 2 THEN [out |-> None, log |-> {}]
    ELSE IF Len(encrypted_string.cipher_parts) < 2
         THEN [out |-> None, log |-> {}]
    ELSE IF self.enc_key = None THEN [out |-> None, log |-> {}]
    ELSE
      LET enc_type == encrypted_string.encType
          cipher_parts == encrypted_string.cipher_parts
          iv   == cipher_parts[1]
          data == cipher_parts[2]
          mac  == IF Len(cipher_parts) > 2 THEN cipher_parts[3] ELSE None
          key  == self.enc_key
          computed_mac == Hmac(self.mac_key, MacInput(iv, data))
          \* a mismatch is printed and decryption goes on
          maclog == IF Truthy(mac) /\ Truthy(self.mac_key)
                       /\ mac # computed_mac
                    THEN {Hex8("computed_mac", computed_mac),
                          Hex8("expected_mac", mac)}
                    ELSE {}
          decrypted == Decode(AesDecrypt(data, key, iv, g))
      IN  IF enc_type = 0 \/ enc_type = 2
          THEN [out |-> IF decrypted = Raise THEN None ELSE decrypted,
                log |-> maclog]
          ELSE [out |-> None, log |-> maclog]

(***************************************************************************)
(* The server.  It knows each account's password, iteration count and      *)
(* SymmetricKey, and answers in the official (PascalCase) or the           *)
(* self-hosted (camelCase) dialect.                                        *)
(***************************************************************************)
SymKey(acct) == [t |-> "bytes", utf8 |-> FALSE, s |-> acct,
                 len |-> SymKeyLen(acct)]

ServerMasterKey(acct) ==
    _make_master_key(Str(RealPassword(acct)), Str(acct), RealIterations(acct))

\* the account's SymmetricKey as the profile endpoint delivers it
WrappedKey(acct) ==
    LET k == _expand_key(ServerMasterKey(acct))
    IN  Encrypt(2, Iv(0), SymKey(acct), k[1], k[2])

Token(kind, acct) == [t |-> "token", kind |-> kind, acct |-> acct]

\* Alice's server is the official one (PascalCase fields), Bob's is
\* self-hosted (camelCase fields)
Official(acct) == acct = "alice@x.io"

PreloginModes == {"200", "non200", "exception"}

\* POST {identity_url}/accounts/prelogin
PreloginResponse(email_, mode) ==
    LET acct == Lower(email_.s)
        n == RealIterations(acct)
    IN  IF mode # "200" THEN [status_code |-> 500, json |-> <<>>]
        ELSE IF Official(acct)
        THEN [status_code |-> 200, json |-> [KdfIterations |-> n]]
        ELSE [status_code |-> 200, json |-> [kdfIterations |-> n]]

NetModes == {"up", "exception"}

\* POST {identity_url}/connect/token
TokenResponse(username, password_hash) ==
    LET acct == Lower(username.s)
    IN  IF password_hash
             = _hash_password(Str(RealPassword(acct)), ServerMasterKey(acct))
        THEN [status_code |-> 200,
              json |-> [access_token  |-> Token("access", acct),
                        refresh_token |-> Token("refresh", acct)]]
        ELSE [status_code |-> 400,
              json |-> [error_description |-> "invalid_username_or_password"]]

\* a 48-byte key, wrapped correctly under the account's master key
OddKey(acct) ==
    LET k == _expand_key(ServerMasterKey(acct))
    IN  Encrypt(2, Iv(0), [t |-> "bytes", utf8 |-> FALSE, s |-> acct,
                           len |-> 48], k[1], k[2])

ProfileModes ==
    {"wrapped_key", "flipped_mac", "odd_length", "absent", "non200",
     "exception"}

\* GET {api_url}/accounts/profile
ProfileResponse(access_token, mode) ==
    IF access_token = None \/ mode = "non200"
    THEN [status_code |-> 401, json |-> <<>>]
    ELSE LET acct == access_token.acct
             cs == IF mode = "flipped_mac" THEN FlipMac(WrappedKey(acct))
                   ELSE IF mode = "odd_length" THEN OddKey(acct)
                   ELSE WrappedKey(acct)
         IN  [status_code |-> 200,
              json |-> IF mode = "absent" THEN <<>>
                       ELSE IF Official(acct) THEN [Key |-> cs]
                       ELSE [key |-> cs]]

\* an HTTP request as the server sees it
Request(endpoint, body, bearer) ==
    [endpoint |-> endpoint, body |-> body, bearer |-> bearer]

(***************************************************************************)
(* dict.get and the "a or b" idiom of the two field-name dialects.         *)
(***************************************************************************)
Get(d, k, default) == IF k \in DOMAIN d THEN d[k] ELSE default

\* d.get(k1) or d.get(k2) for record-valued fields
GetEither(d, k1, k2) ==
    IF Truthy(Get(d, k1, None)) THEN d[k1] ELSE Get(d, k2, None)

\* prelogin_data.get("KdfIterations") or prelogin_data.get("kdfIterations", 100000)
GetKdfIterations(prelogin_data) ==
    IF "KdfIterations" \in DOMAIN prelogin_data
       /\ prelogin_data.KdfIterations # 0
    THEN prelogin_data.KdfIterations
    ELSE IF "kdfIterations" \in DOMAIN prelogin_data
         THEN prelogin_data.kdfIterations
         ELSE DEFAULT_KDF_ITERATIONS

(***************************************************************************)
(* The config store (core/config.py) and the session record in it.         *)
(***************************************************************************)
SessionFields ==
    {"access_token", "refresh_token", "email", "identity_url", "api_url",
     "kdf_iterations"}

\* config[k] = v
Put(config, k, v) ==
    [x \in DOMAIN config \cup {k} |-> IF x = k THEN v ELSE config[x]]

\* del config[k]
Del(config, k) == [x \in DOMAIN config \ {k} |-> config[x]]

\* a session record that also keeps the master key
_save_session_with_key(self, config) ==
    Put(config, "bitwarden_session",
        [access_token   |-> self.access_token,
         refresh_token  |-> self.refresh_token,
         email          |-> self.email,
         identity_url   |-> self.identity_url,
         api_url        |-> self.api_url,
         kdf_iterations |-> self.kdf_iterations,
         master_key     |-> self.master_key])

_save_session(self, config) ==
    Put(config, "bitwarden_session",
        [access_token   |-> self.access_token,
         refresh_token  |-> self.refresh_token,
         email          |-> self.email,
         identity_url   |-> self.identity_url,
         api_url        |-> self.api_url,
         kdf_iterations |-> self.kdf_iterations])

\* BitwardenFullClient.__init__ before _load_session
NewClient ==
    [access_token   |-> None, refresh_token |-> None, master_key |-> None,
     symmetric_key  |-> None, enc_key |-> None, mac_key |-> None,
     email          |-> None, password |-> None,
     kdf_iterations |-> DEFAULT_KDF_ITERATIONS,
     identity_url   |-> DEFAULT_IDENTITY_URL,
     api_url        |-> DEFAULT_API_URL]

\* a load that forgets the saved access token
_load_session_without_token(self, config) ==
    LET session == Get(config, "bitwarden_session", <<>>)
    IN  [self EXCEPT
           !.access_token   = None,
           !.refresh_token  = Get(session, "refresh_token", None),
           !.email          = Get(session, "email", None),
           !.identity_url   = Get(session, "identity_url",
                                  DEFAULT_IDENTITY_URL),
           !.api_url        = Get(session, "api_url", DEFAULT_API_URL),
           !.kdf_iterations = Get(session, "kdf_iterations",
                                  DEFAULT_KDF_ITERATIONS)]

_load_session(self, config) ==
    LET session == Get(config, "bitwarden_session", <<>>)
    IN  [self EXCEPT
           !.access_token   = Get(session, "access_token", None),
           !.refresh_token  = Get(session, "refresh_token", None),
           !.email          = Get(session, "email", None),
           !.identity_url   = Get(session, "identity_url",
                                  DEFAULT_IDENTITY_URL),
           !.api_url        = Get(session, "api_url", DEFAULT_API_URL),
           !.kdf_iterations = Get(session, "kdf_iterations",
                                  DEFAULT_KDF_ITERATIONS)]

\* str(uuid.uuid4()), drawn once per installation
DeviceUuid == Str("6f1c-uuid4")

\* the device id and the config it leaves behind
_get_device_id(config) ==
    IF Truthy(Get(config, "bitwarden_device_id", None))
    THEN [device_id |-> config.bitwarden_device_id, config |-> config]
    ELSE [device_id |-> DeviceUuid,
          config |-> Put(config, "bitwarden_device_id", DeviceUuid)]

get_status(self) ==
    IF ~Truthy(self.access_token) THEN "logged_out"
    ELSE IF ~Truthy(self.master_key) THEN "locked"
    ELSE "unlocked"

(***************************************************************************)
(* Operations.  Each is an operator from the client, the config and the    *)
(* environment's answers to what the call leaves behind: the client, the   *)
(* config, the requests sent, the output printed, the decrypt calls made   *)
(* and the value returned.                                                 *)
(***************************************************************************)
Ret(ok, msg) == [ok |-> ok, msg |-> msg]

Outcome(self, config, reqs, out, calls, ret) ==
    [self |-> self, config |-> config, requests |-> reqs, log |-> out,
     decs |-> calls, ret |-> ret]

ProfileRequest(self) ==
    Request("/accounts/profile", <<>>, self.access_token)

\* what _fetch_and_decrypt_keys leaves: the client, the prints, the decrypts
Fetched(self, out, calls) == [self |-> self, log |-> out, decs |-> calls]

\* lines 276-283: the decrypted key is truthy and is expanded (ek)
_fetch_expand(self, out, calls, ek) ==
    Fetched([self EXCEPT !.enc_key = ek[1], !.mac_key = ek[2]],
            out \cup {Hex8("enc_key", ek[1]), Hex8("mac_key", ek[2])},
            calls)

\* lines 261-285: the profile carries encrypted_key; mk is the expanded
\* master key and d what _decrypt_bytes_with_keys made of encrypted_key
_fetch_decrypted(self, encrypted_key, mk, d) ==
    LET s1 == [self EXCEPT !.symmetric_key = d.out]
        out == {LogEntry("encrypted_key[:30]", encrypted_key),
                Hex8("master_key", self.master_key),
                Hex8("master_enc_key", mk[1]),
                Hex8("master_mac_key", mk[2])} \cup d.log
        calls == {DecCall("_decrypt_bytes_with_keys", encrypted_key, mk[2],
                          d.out)}
    IN  IF Truthy(d.out) THEN _fetch_expand(s1, out, calls, _expand_key(d.out))
        ELSE Fetched(s1, out, calls)

\* lines 268-273: expand the master key and decrypt encrypted_key with it
_fetch_decrypt(self, encrypted_key, mk, g) ==
    _fetch_decrypted(self, encrypted_key, mk,
                     _decrypt_bytes_with_keys(encrypted_key, mk[1], mk[2], g))

\* lines 257-260: encrypted_key is what the profile holds as Key or key
_fetch_key(self, encrypted_key, g) ==
    IF Truthy(encrypted_key)
    THEN _fetch_decrypt(self, encrypted_key, _expand_key(self.master_key), g)
    ELSE Fetched(self, {}, {})

\* lines 252-257, 286-287: the response of the profile endpoint
_fetch_response(self, response, g) ==
    IF response.status_code = 200
    THEN _fetch_key(self, GetEither(response.json, "Key", "key"), g)
    ELSE Fetched(self, {}, {})

\* prof: how the profile endpoint answers; g: what a wrong-key decrypt gives
_fetch_and_decrypt_keys(self, prof, g) ==
    IF prof = "exception" THEN Fetched(self, {}, {})
    ELSE _fetch_response(self, ProfileResponse(self.access_token, prof), g)

PreloginRequest(email_) ==
    Request("/accounts/prelogin", [email |-> email_], None)

TokenRequest(email_, password_hash, device_id) ==
    Request("/connect/token",
            [grant_type |-> Str("password"), username |-> email_,
             password |-> password_hash, scope |-> Str("api offline_access"),
             client_id |-> Str("web"), deviceType |-> Str("8"),
             deviceName |-> Str("wlaunch"), deviceIdentifier |-> device_id],
            None)

StoreFailures == {"none", "device_id", "save_session"}

\* pre, net, prof: the answers of the pre-login, token and profile
\* endpoints; sf: the config access that raises OSError, if any
login(self, config, email_, password_, pre, net, prof, sf, g) ==
    LET prelogin_response == PreloginResponse(email_, pre)
        s1 == IF prelogin_response.status_code = 200
              THEN [self EXCEPT !.kdf_iterations =
                                  GetKdfIterations(prelogin_response.json)]
              ELSE self
        master_key == _make_master_key(password_, email_, s1.kdf_iterations)
        s2 == [s1 EXCEPT !.master_key = master_key, !.password = password_]
        password_hash == _hash_password(password_, master_key)
        dev == _get_device_id(config)
        req1 == PreloginRequest(email_)
        req2 == TokenRequest(email_, password_hash, dev.device_id)
        auth_response == TokenResponse(email_, password_hash)
        auth_data == auth_response.json
        s3 == [s2 EXCEPT !.access_token  = auth_data.access_token,
                         !.refresh_token = Get(auth_data, "refresh_token",
                                               None),
                         !.email = email_]
        f == _fetch_and_decrypt_keys(s3, prof, g)
        s4 == [f.self EXCEPT !.password = None]
        failed == [s2 EXCEPT !.password = None]
    IN  IF pre = "exception"
        THEN Outcome([self EXCEPT !.password = None], config, <<req1>>, {},
                     {}, Ret(FALSE, "Login error"))
        ELSE IF sf = "device_id"
        THEN Outcome(failed, config, <<req1>>, {}, {},
                     Ret(FALSE, "Login error"))
        ELSE IF net = "exception"
        THEN Outcome(failed, dev.config, <<req1, req2>>, {}, {},
                     Ret(FALSE, "Login error"))
        ELSE IF auth_response.status_code # 200
        THEN Outcome(failed, dev.config, <<req1, req2>>, {}, {},
                     Ret(FALSE, auth_data.error_description))
        ELSE IF sf = "save_session"
        THEN Outcome(s4, dev.config, <<req1, req2, ProfileRequest(s3)>>,
                     f.log, f.decs, Ret(FALSE, "Login error"))
        ELSE Outcome(s4, _save_session(s4, dev.config),
                     <<req1, req2, ProfileRequest(s3)>>, f.log, f.decs,
                     Ret(TRUE, "Login successful"))

\* a failure branch that forgets to drop the master key
unlock_failed_keeps_key(self) == [self EXCEPT !.password = None]

\* the else branch of unlock: symmetric_key is falsy
unlock_failed(self) == [self EXCEPT !.master_key = None, !.password = None]

\* a check that re-queries pre-login on every unlock
NeedsPrelogin_always(self) == TRUE

\* line 457: the iteration count is still the default
NeedsPrelogin(self) == self.kdf_iterations = DEFAULT_KDF_ITERATIONS

unlock(self, config, password_, pre, prof, sf, g) ==
    LET fetch == NeedsPrelogin(self)
        prelogin_response == PreloginResponse(self.email, pre)
        fetched == fetch /\ pre # "exception"
                   /\ prelogin_response.status_code = 200
        s1 == IF fetched
              THEN [self EXCEPT !.kdf_iterations =
                                  GetKdfIterations(prelogin_response.json)]
              ELSE self
        \* a failure of _save_session is swallowed with the pre-login's
        config1 == IF fetched /\ sf # "save_session"
                   THEN _save_session(s1, config) ELSE config
        reqs1 == IF fetch THEN <<PreloginRequest(self.email)>> ELSE <<>>
        master_key == _make_master_key(password_, s1.email, s1.kdf_iterations)
        s2 == [s1 EXCEPT !.master_key = master_key, !.password = password_]
        f == _fetch_and_decrypt_keys(s2, prof, g)
        reqs == Append(reqs1, ProfileRequest(s2))
        out == {LogEntry("email", self.email),
                LogEntry("kdf_iterations", Str("iterations"))} \cup f.log
    IN  IF ~Truthy(self.email)
        THEN Outcome(self, config, <<>>, {LogEntry("email", self.email)}, {},
                     Ret(FALSE, "No saved session. Please login first."))
        ELSE IF Truthy(f.self.symmetric_key)
        THEN Outcome([f.self EXCEPT !.password = None], config1, reqs, out,
                     f.decs, Ret(TRUE, "Unlocked successfully"))
        ELSE Outcome(unlock_failed(f.self), config1, reqs, out, f.decs,
                     Ret(FALSE, "Incorrect password"))

\* a lock that leaves the working MAC key behind
lock_keeps_mac_key(self) ==
    [self EXCEPT !.master_key = None, !.symmetric_key = None,
                 !.enc_key = None, !.password = None]

lock(self) ==
    [self EXCEPT !.master_key = None, !.symmetric_key = None,
                 !.enc_key = None, !.mac_key = None, !.password = None]

\* a logout that leaves the saved session in the config
ClearSavedSession_noop(config) == config

\* the config after logout's del config["bitwarden_session"]
ClearSavedSession(config) == Del(config, "bitwarden_session")

\* the call did not return: an exception left it
Unhandled == Ret(FALSE, "raised")

\* sf # "none": load_config or save_config raises after the fields are
\* cleared, and nothing in logout catches it
logout(self, config, sf) ==
    LET s1 == [self EXCEPT !.access_token = None, !.refresh_token = None,
                           !.master_key = None, !.symmetric_key = None,
                           !.enc_key = None, !.mac_key = None,
                           !.email = None, !.password = None]
    IN  IF sf # "none"
        THEN Outcome(s1, config, <<>>, {}, {}, Unhandled)
        ELSE Outcome(s1, ClearSavedSession(config), <<>>, {}, {},
                     Ret(TRUE, "None"))

(***************************************************************************)
(* The vault: the /sync collection and its decryption.                     *)
(***************************************************************************)
\* the working pair the server-side items of an account are encrypted under
VaultKeys(acct) == _expand_key(SymKey(acct))

\* a protected field of an item of acct, as a correct client wrote it
Field(acct, n, text) ==
    Encrypt(2, Iv(n), Utf8(text), VaultKeys(acct)[1], VaultKeys(acct)[2])

\* a Login item (Type 1) in the official dialect
LoginCipher(acct, name, deleted) ==
    [Id |-> Str("id-1"), Type |-> 1, Name |-> name,
     Notes |-> None, Favorite |-> FALSE, DeletedDate |-> deleted,
     Login |-> [Username |-> Field(acct, 2, "octocat"),
                Password |-> Field(acct, 3, "hunter2"),
                Uris |-> <<[Uri |-> Field(acct, 4, "https://github.com")]>>,
                Totp |-> None]]

\* the items the server may hold for an account
CipherFixtures(acct) ==
    {LoginCipher(acct, Field(acct, 1, "GitHub"), None),
     LoginCipher(acct, FlipMac(Field(acct, 1, "GitHub")), None),
     LoginCipher(acct, Field(acct, 1, "GitHub"), Str("2024-01-01T00:00:00Z"))}

RECURSIVE SeqsUpTo(_, _)
\* the sequences over S of length at most n
SeqsUpTo(S, n) ==
    IF n = 0 THEN {<<>>}
    ELSE LET shorter == SeqsUpTo(S, n - 1)
         IN  shorter \cup {Append(q, x) : q \in shorter, x \in S}

SyncModes == {"200", "non200", "exception"}

Queries == {"", "git"}

\* str.lower() on one character
LowerChar(c) ==
    CASE c = "A" -> "a" [] c = "B" -> "b" [] c = "C" -> "c" [] c = "D" -> "d"
      [] c = "E" -> "e" [] c = "F" -> "f" [] c = "G" -> "g" [] c = "H" -> "h"
      [] c = "I" -> "i" [] c = "J" -> "j" [] c = "K" -> "k" [] c = "L" -> "l"
      [] c = "M" -> "m" [] c = "N" -> "n" [] c = "O" -> "o" [] c = "P" -> "p"
      [] c = "Q" -> "q" [] c = "R" -> "r" [] c = "S" -> "s" [] c = "T" -> "t"
      [] c = "U" -> "u" [] c = "V" -> "v" [] c = "W" -> "w" [] c = "X" -> "x"
      [] c = "Y" -> "y" [] c = "Z" -> "z"
      [] OTHER -> c

RECURSIVE LowerText(_)
\* str.lower()
LowerText(txt) ==
    IF txt = "" THEN ""
    ELSE LowerChar(SubSeq(txt, 1, 1)) \o LowerText(SubSeq(txt, 2, Len(txt)))

\* q in txt: q is a substring of txt
Contains(txt, q) ==
    \E i \in 1..(Len(txt) - Len(q) + 1) : SubSeq(txt, i, i + Len(q) - 1) = q

\* v or default
StrOr(v, default) == IF Truthy(v) THEN v ELSE default

\* self._decrypt_string(d.get(k1) or d.get(k2))
Dec(self, d, k1, k2, g) == _decrypt_string(self, GetEither(d, k1, k2), g).out

\* self._decrypt_string(d.get(k1) or d.get(k2)) or ""
DecOr(self, d, k1, k2, g) == StrOr(Dec(self, d, k1, k2, g), Str(""))

\* result[k] = v for every k of more
Merge(result, more) ==
    [k \in DOMAIN result \cup DOMAIN more |->
       IF k \in DOMAIN more THEN more[k] ELSE result[k]]

\* a dict or list valued field: cipher.get(k1) or cipher.get(k2, {}); an
\* empty dict or list is falsy
SubDict(cipher, k1, k2) ==
    IF k1 \in DOMAIN cipher /\ DOMAIN cipher[k1] # {} THEN cipher[k1]
    ELSE Get(cipher, k2, <<>>)

\* d.get("Type") or d.get("type"); 0 is falsy and stands for None as well
TypeOf(d) ==
    IF "Type" \in DOMAIN d /\ d.Type # 0 THEN d.Type ELSE Get(d, "type", 0)

\* cipher.get("Favorite") or cipher.get("favorite", False)
Favorite(cipher) ==
    IF "Favorite" \in DOMAIN cipher /\ cipher.Favorite THEN TRUE
    ELSE Get(cipher, "favorite", FALSE)

\* the dict _decrypt_cipher starts its result with
CipherBase(self, cipher, g) ==
    [id |-> GetEither(cipher, "Id", "id"),
     name |-> StrOr(Dec(self, cipher, "Name", "name", g), Str("Unknown")),
     notes |-> DecOr(self, cipher, "Notes", "notes", g),
     item_type |-> TypeOf(cipher),
     favorite |-> Favorite(cipher)]

\* item_type == 1: what _decrypt_cipher adds for a Login
LoginFields(self, login_, g) ==
    LET uris == SubDict(login_, "Uris", "uris")
        totp == GetEither(login_, "Totp", "totp")
    IN  Merge([username |-> DecOr(self, login_, "Username", "username", g),
               password |-> DecOr(self, login_, "Password", "password", g),
               url |-> IF Len(uris) > 0
                       THEN DecOr(self, uris[1], "Uri", "uri", g)
                       ELSE Str(""),
               has_totp |-> Truthy(totp),
               type_name |-> "login"],
              IF Truthy(totp)
              THEN [totp_seed |-> _decrypt_string(self, totp, g).out]
              ELSE <<>>)

\* the 12 bullets (U+2022) _decrypt_cipher puts before the last 4 characters
Bullets == "************"

\* a masked number that shows the first 4 characters instead of the last
number_masked_head(number) ==
    IF Len(number) > 4 THEN Bullets \o SubSeq(number, 1, 4) ELSE number

\* "............" + number[-4:] if len(number) > 4, else number
number_masked(number) ==
    IF Len(number) > 4
    THEN Bullets \o SubSeq(number, Len(number) - 3, Len(number))
    ELSE number

\* item_type == 3: what _decrypt_cipher adds for a Card
CardFields(self, card, g) ==
    [cardholder |-> DecOr(self, card, "CardholderName", "cardholderName", g),
     brand |-> DecOr(self, card, "Brand", "brand", g),
     number_masked |->
         Str(number_masked(DecOr(self, card, "Number", "number", g).s)),
     number_full |-> DecOr(self, card, "Number", "number", g),
     exp_month |-> DecOr(self, card, "ExpMonth", "expMonth", g),
     exp_year |-> DecOr(self, card, "ExpYear", "expYear", g),
     code |-> DecOr(self, card, "Code", "code", g),
     type_name |-> "card"]

RECURSIVE Strip(_)
\* str.strip() for texts whose only whitespace is the space
Strip(txt) ==
    IF txt = "" THEN ""
    ELSE IF SubSeq(txt, 1, 1) = " " THEN Strip(SubSeq(txt, 2, Len(txt)))
    ELSE IF SubSeq(txt, Len(txt), Len(txt)) = " "
         THEN Strip(SubSeq(txt, 1, Len(txt) - 1))
    ELSE txt

\* item_type == 4: what _decrypt_cipher adds for an Identity
IdentityFields(self, identity, g) ==
    [first_name |-> DecOr(self, identity, "FirstName", "firstName", g),
     last_name |-> DecOr(self, identity, "LastName", "lastName", g),
     email |-> DecOr(self, identity, "Email", "email", g),
     phone |-> DecOr(self, identity, "Phone", "phone", g),
     address |->
         Str(Strip(DecOr(self, identity, "Address1", "address1", g).s
                   \o " "
                   \o DecOr(self, identity, "Address2", "address2", g).s)),
     type_name |-> "identity"]

\* the fields _decrypt_cipher adds according to item_type
TypeFields(self, cipher, g) ==
    CASE TypeOf(cipher) = 1 ->
           LoginFields(self, SubDict(cipher, "Login", "login"), g)
      [] TypeOf(cipher) = 2 -> [type_name |-> "note"]
      [] TypeOf(cipher) = 3 ->
           CardFields(self, SubDict(cipher, "Card", "card"), g)
      [] TypeOf(cipher) = 4 ->
           IdentityFields(self, SubDict(cipher, "Identity", "identity"), g)
      [] OTHER -> <<>>

\* the custom_fields entry, present when the cipher has Fields
CustomFields(self, cipher, g) ==
    LET fields == SubDict(cipher, "Fields", "fields")
    IN  IF Len(fields) > 0
        THEN [custom_fields |->
                [i \in DOMAIN fields |->
                   [name  |-> Dec(self, fields[i], "Name", "name", g),
                    value |-> Dec(self, fields[i], "Value", "value", g),
                    type  |-> TypeOf(fields[i])]]]
        ELSE <<>>

_decrypt_cipher(self, cipher, g) ==
    Merge(Merge(CipherBase(self, cipher, g), TypeFields(self, cipher, g)),
          CustomFields(self, cipher, g))

\* the values of a Card or Identity dict, each handed to _decrypt_string
StringsIn(d) == {d[k] : k \in DOMAIN d}

\* the cipher strings _decrypt_cipher hands to _decrypt_string
CipherStringsOf(cipher) ==
    LET login_ == SubDict(cipher, "Login", "login")
        uris == SubDict(login_, "Uris", "uris")
        fields == SubDict(cipher, "Fields", "fields")
    IN  {cs \in {GetEither(cipher, "Name", "name"),
                 GetEither(cipher, "Notes", "notes")}
                \cup (IF TypeOf(cipher) = 1
                      THEN {GetEither(login_, "Username", "username"),
                            GetEither(login_, "Password", "password"),
                            GetEither(login_, "Totp", "totp")}
                           \cup (IF Len(uris) > 0
                                 THEN {GetEither(uris[1], "Uri", "uri")}
                                 ELSE {})
                      ELSE {})
                \cup (IF TypeOf(cipher) = 3
                      THEN StringsIn(SubDict(cipher, "Card", "card"))
                      ELSE {})
                \cup (IF TypeOf(cipher) = 4
                      THEN StringsIn(SubDict(cipher, "Identity", "identity"))
                      ELSE {})
                \cup UNION {{GetEither(fields[i], "Name", "name"),
                             GetEither(fields[i], "Value", "value")} :
                            i \in DOMAIN fields} :
            Truthy(cs)}

\* a deleted-date test that knows only the PascalCase spelling
IsDeleted_pascal_only(cipher) == Truthy(Get(cipher, "DeletedDate", None))

\* cipher.get("DeletedDate") or cipher.get("deletedDate")
IsDeleted(cipher) == Truthy(GetEither(cipher, "DeletedDate", "deletedDate"))

\* a filter that also looks into the notes
SearchText_with_notes(item) ==
    Get(item, "name", Str("")).s \o " " \o Get(item, "notes", Str("")).s

\* item.get("name", ""): the text the query is looked for in
SearchText(item) == Get(item, "name", Str("")).s

RECURSIVE Results(_, _, _, _)
\* the loop of search_items over ciphers
Results(self, ciphers, query, g) ==
    IF ciphers = <<>> THEN <<>>
    ELSE IF IsDeleted(Head(ciphers))
         THEN Results(self, Tail(ciphers), query, g)
    ELSE IF query # ""
            /\ ~Contains(LowerText(SearchText(
                                     _decrypt_cipher(self, Head(ciphers), g))),
                         LowerText(query))
         THEN Results(self, Tail(ciphers), query, g)
    ELSE <<_decrypt_cipher(self, Head(ciphers), g)>>
         \o Results(self, Tail(ciphers), query, g)

SyncRequest(self) == Request("/sync", <<>>, self.access_token)

\* sync(): the POST to /sync and the bool it returns
sync(self, mode) ==
    IF ~Truthy(self.access_token)
    THEN [requests |-> <<>>, ret |-> FALSE]
    ELSE [requests |-> <<SyncRequest(self)>>, ret |-> mode = "200"]

search_items(self, query, mode, ciphers, g) ==
    IF ~Truthy(self.access_token) \/ ~Truthy(self.symmetric_key)
    THEN [requests |-> <<>>, log |-> {}, decs |-> {}, items |-> <<>>]
    ELSE IF mode # "200"
    THEN [requests |-> <<SyncRequest(self)>>, log |-> {}, decs |-> {},
          items |-> <<>>]
    ELSE
      LET live == SelectSeq(ciphers, LAMBDA c : ~IsDeleted(c))
          strings == UNION {CipherStringsOf(live[i]) : i \in DOMAIN live}
      IN  [requests |-> <<SyncRequest(self)>>,
           log  |-> UNION {_decrypt_string(self, cs, g).log : cs \in strings},
           decs |-> {DecCall("_decrypt_string", cs, self.mac_key,
                             _decrypt_string(self, cs, g).out) : cs \in strings},
           items |-> Results(self, ciphers, query, g)]

(***************************************************************************)
(* The collections of the vault specification: items of every type, in     *)
(* the dialect of the account's server.                                    *)
(***************************************************************************)
\* number of cipher items of the /sync response in the vault specification
MaxItems == 2

\* the camelCase spelling of a PascalCase field name
Camel(k) == LowerChar(SubSeq(k, 1, 1)) \o SubSeq(k, 2, Len(k))

\* a dict in the dialect of the account's server
Dialect(acct, d) ==
    IF Official(acct) THEN d
    ELSE [k \in {Camel(x) : x \in DOMAIN d} |->
            d[CHOOSE x \in DOMAIN d : Camel(x) = k]]

\* a key pair that is not the account's
ForeignKeys ==
    _expand_key([t |-> "bytes", utf8 |-> FALSE, s |-> "elsewhere", len |-> 64])

\* a field encrypted and authenticated under the foreign pair
ForeignField(n, text) ==
    Encrypt(2, Iv(n), Utf8(text), ForeignKeys[1], ForeignKeys[2])

\* a field whose text has no '.' separator
Malformed == [t |-> "cs", dots |-> 1, encType |-> 2, cipher_parts |-> <<>>]

\* the part shared by the items of every type
VaultItem(acct, id, type, name, notes, deleted, more) ==
    Dialect(acct,
            Merge([Id |-> Str(id), Type |-> type, Name |-> name,
                   Notes |-> notes, Favorite |-> FALSE,
                   DeletedDate |-> deleted],
                  more))

VaultLogin(acct, id, name, username, totp, deleted) ==
    VaultItem(acct, id, 1, name, None, deleted,
              [Login |->
                 Dialect(acct,
                         [Username |-> username,
                          Password |-> Field(acct, 3, "hunter2"),
                          Uris |-> <<Dialect(acct,
                                       [Uri |-> Field(acct, 4,
                                                      "https://github.com")])>>,
                          Totp |-> totp])])

VaultCard(acct, id, number) ==
    VaultItem(acct, id, 3, Field(acct, 1, "Visa"), None, None,
              [Card |->
                 Dialect(acct,
                         [CardholderName |-> Field(acct, 2, "A Lovelace"),
                          Brand |-> Field(acct, 3, "Visa"),
                          Number |-> number,
                          ExpMonth |-> Field(acct, 5, "12"),
                          ExpYear |-> Field(acct, 6, "2030"),
                          Code |-> Field(acct, 7, "123")])])

VaultIdentity(acct, id) ==
    VaultItem(acct, id, 4, Field(acct, 1, "Passport"), None, None,
              [Identity |->
                 Dialect(acct,
                         [FirstName |-> Field(acct, 2, "Ada"),
                          LastName |-> Field(acct, 3, "Lovelace"),
                          Email |-> Field(acct, 4, "ada@x.io"),
                          Phone |-> ForeignField(8, "555 0100"),
                          Address1 |-> Field(acct, 5, "1 Main St"),
                          Address2 |-> None]),
               Fields |-> <<Dialect(acct,
                              [Name |-> Field(acct, 6, "pin"),
                               Value |-> FlipMac(Field(acct, 7, "0000")),
                               Type |-> 1])>>])

\* a Login item that carries both spellings of its fields, some of the
\* capitalized values being falsy
BothSpellings(acct) ==
    [Id |-> Str("both"), id |-> Str("both-camel"),
     Type |-> 1, type |-> 2,
     Name |-> Field(acct, 1, "GitHub"), name |-> Field(acct, 1, "Recipes"),
     Notes |-> None, notes |-> Field(acct, 2, "git tips"),
     Favorite |-> FALSE, favorite |-> TRUE,
     DeletedDate |-> None, deletedDate |-> None,
     Login |-> [Username |-> Field(acct, 2, "octocat"),
                username |-> Field(acct, 2, "hubot"),
                Password |-> None,
                password |-> Field(acct, 3, "hunter2"),
                Totp |-> None, totp |-> None],
     login |-> [username |-> Field(acct, 2, "hubot")]]

\* the items the server may hold for an account in the vault specification
VaultFixtures(acct) ==
    {VaultLogin(acct, "login", Field(acct, 1, "GitHub"),
                Field(acct, 2, "octocat"), None, None),
     VaultLogin(acct, "login-flipped", FlipMac(Field(acct, 1, "GitHub")),
                Field(acct, 2, "octocat"), None, None),
     VaultLogin(acct, "login-broken", Malformed,
                Field(acct, 2, "octocat"), Field(acct, 5, "JBSWY3DP"), None),
     VaultLogin(acct, "login-deleted", Field(acct, 1, "GitHub"),
                Field(acct, 2, "octocat"), None,
                Str("2024-01-01T00:00:00Z")),
     VaultItem(acct, "note", 2, Field(acct, 1, "Recipes"),
               Field(acct, 2, "git tips"), None, <<>>),
     VaultCard(acct, "card-16", Field(acct, 4, "4111111111111111")),
     VaultCard(acct, "card-4", Field(acct, 4, "1234")),
     VaultCard(acct, "card-none", None),
     VaultIdentity(acct, "identity"),
     BothSpellings(acct)}

\* what the user may type into the search box in the vault specification
VaultQueries == {"", "GIT", "octo", "unk"}

(***************************************************************************)
(* The state machine: one client object, the config file, and what the     *)
(* last call sent, printed, decrypted and returned.                        *)
(***************************************************************************)
\* the padding strip of a decrypt under the right key plays no part
NoGarbage == CHOOSE g \in GarbageOutcomes : g.len = 0

\* The last call: the operation, get_status() before it, its arguments,
\* what the pre-login and profile endpoints answered ("-": not asked) and
\* the value returned; for search_items and sync also the query, how /sync
\* answered, the ciphers it served, what a wrong-key decrypt gave and the
\* items returned; sf is the config access that raised OSError, if any.
Call(op, from, email_, password_, pre, prof, ret) ==
    [op |-> op, from |-> from, email |-> email_, password |-> password_,
     pre |-> pre, prof |-> prof, ret |-> ret,
     query |-> "", mode |-> "-", ciphers |-> <<>>, g |-> NoGarbage,
     items |-> <<>>, sf |-> "none"]

\* no call is in progress or waiting to be looked at
Idle == Call("idle", "-", None, None, "-", "-", Ret(TRUE, "None"))

Init ==
    /\ client = _load_session(NewClient, <<>>)
    /\ store = <<>>
    /\ requests = <<>>
    /\ log = {}
    /\ decs = {}
    /\ last = Idle

Install(o, call) ==
    /\ client' = o.self
    /\ store' = o.config
    /\ requests' = o.requests
    /\ log' = o.log
    /\ decs' = o.decs
    /\ last' = call

\* An answer that the call does not get to see is fixed, not enumerated.
Login ==
    /\ last = Idle
    /\ \E e \in Emails, p \in Passwords, pre \in PreloginModes :
       \E sf \in IF pre = "exception" THEN {"none"} ELSE StoreFailures :
       \E net \in IF pre = "exception" \/ sf = "device_id"
                  THEN {"up"} ELSE NetModes :
       \E prof \in IF Len(login(client, store, Str(e), Str(p), pre, net,
                                "wrapped_key", sf, NoGarbage).requests) = 3
                   THEN ProfileModes ELSE {"wrapped_key"} :
         LET o == login(client, store, Str(e), Str(p), pre, net, prof, sf,
                        NoGarbage)
         IN  Install(o, [Call("login", get_status(client), Str(e), Str(p),
                              pre, IF Len(o.requests) = 3 THEN prof ELSE "-",
                              o.ret)
                         EXCEPT !.sf = sf])

Unlock ==
    /\ last = Idle
    /\ \E p \in Passwords :
       \E pre \in IF Truthy(client.email) /\ NeedsPrelogin(client)
                  THEN PreloginModes ELSE {"200"} :
       \E sf \in IF Truthy(client.email) /\ NeedsPrelogin(client)
                    /\ pre = "200"
                 THEN {"none", "save_session"} ELSE {"none"} :
       \E prof \in IF Truthy(client.email) THEN ProfileModes
                   ELSE {"wrapped_key"} :
         LET o == unlock(client, store, Str(p), pre, prof, sf, NoGarbage)
         IN  Install(o, [Call("unlock", get_status(client), client.email,
                              Str(p),
                              IF Len(o.requests) = 2 THEN pre ELSE "-",
                              IF Len(o.requests) > 0 THEN prof ELSE "-",
                              o.ret)
                         EXCEPT !.sf = sf])

Lock ==
    /\ last = Idle
    /\ client' = lock(client)
    /\ requests' = <<>>
    /\ log' = {}
    /\ decs' = {}
    /\ last' = Call("lock", get_status(client), None, None, "-", "-",
                    Ret(TRUE, "None"))
    /\ UNCHANGED store

Logout ==
    /\ last = Idle
    /\ \E sf \in {"none", "save_session"} :
         LET o == logout(client, store, sf)
         IN  Install(o, [Call("logout", get_status(client), None, None, "-",
                              "-", o.ret)
                         EXCEPT !.sf = sf])

\* the process ends and a new one constructs its client from the config
Restart ==
    /\ last = Idle
    /\ client' = _load_session(NewClient, store)
    /\ requests' = <<>>
    /\ log' = {}
    /\ decs' = {}
    /\ last' = Call("restart", get_status(client), None, None, "-", "-",
                    Ret(TRUE, "None"))
    /\ UNCHANGED store

Search ==
    /\ last = Idle
    /\ \E q \in Queries, mode \in SyncModes :
       \E g \in IF client.access_token # None
                    /\ client.enc_key = VaultKeys(client.access_token.acct)[1]
                 THEN {NoGarbage} ELSE GarbageOutcomes :
         \E ciphers \in IF ~Truthy(client.access_token)
                           \/ ~Truthy(client.symmetric_key) \/ mode # "200"
                        THEN {<<>>}
                        ELSE SeqsUpTo(CipherFixtures(client.access_token.acct),
                                      MaxCiphers) :
           LET o == search_items(client, q, mode, ciphers, g)
           IN  /\ Len(o.requests) = 0 => mode = "200"
               /\ client' = client
               /\ store' = store
               /\ requests' = o.requests
               /\ log' = o.log
               /\ decs' = o.decs
               /\ last' = [Call("search", get_status(client), None, None, "-",
                                "-", Ret(TRUE, "list"))
                           EXCEPT !.query = q, !.mode = mode,
                                  !.ciphers = ciphers, !.g = g,
                                  !.items = o.items]

Sync ==
    /\ last = Idle
    /\ \E mode \in IF Truthy(client.access_token) THEN SyncModes ELSE {"200"} :
         LET o == sync(client, mode)
         IN  /\ requests' = o.requests
             /\ log' = {}
             /\ decs' = {}
             /\ last' = [Call("sync", get_status(client), None, None, "-", "-",
                              Ret(o.ret, "bool"))
                         EXCEPT !.mode = IF Len(o.requests) = 0 THEN "-"
                                         ELSE mode]
             /\ UNCHANGED <<client, store>>

\* The caller (ui/window.py) has read the returned value; the next call can
\* be made.  Calls are synchronous: one at a time.
Return ==
    /\ last # Idle
    /\ last' = Idle
    /\ requests' = <<>>
    /\ log' = {}
    /\ decs' = {}
    /\ UNCHANGED <<client, store>>

Next ==
    Login \/ Unlock \/ Lock \/ Logout \/ Restart \/ Search \/ Sync \/ Return

Spec == Init /\ [][Next]_vars

(***************************************************************************)
(* The vault specification: a client that has just logged in, and          *)
(* search_items over collections of every item type.                       *)
(***************************************************************************)
VaultInit ==
    \E e \in Emails :
      LET o == login(_load_session(NewClient, <<>>), <<>>, Str(e),
                     Str(RealPassword(Lower(e))), "200", "up", "wrapped_key",
                     "none", NoGarbage)
      IN  /\ client = o.self
          /\ store = o.config
          /\ requests = <<>>
          /\ log = {}
          /\ decs = {}
          /\ last = Idle

\* some field of the ciphers was encrypted under a key that is not the
\* client's: only then does the padding strip have garbage to work on
UsesForeignKey(self, ciphers) ==
    \E i \in DOMAIN ciphers :
      \E cs \in CipherStringsOf(ciphers[i]) :
        /\ Len(cs.cipher_parts) >= 2
        /\ cs.cipher_parts[2].key # Slice(self.enc_key, 0, 32)

VaultSearch ==
    /\ last = Idle
    /\ \E q \in VaultQueries, mode \in SyncModes :
       \E ciphers \in IF mode # "200" THEN {<<>>}
                      ELSE SeqsUpTo(VaultFixtures(client.access_token.acct),
                                    MaxItems) :
       \E g \in IF UsesForeignKey(client, ciphers) THEN GarbageOutcomes
                ELSE {NoGarbage} :
         LET o == search_items(client, q, mode, ciphers, g)
         IN  /\ requests' = o.requests
             /\ log' = o.log
             /\ decs' = o.decs
             /\ last' = [Call("search", get_status(client), None, None, "-",
                              "-", Ret(TRUE, "list"))
                         EXCEPT !.query = q, !.mode = mode,
                                !.ciphers = ciphers, !.g = g,
                                !.items = o.items]
             /\ UNCHANGED <<client, store>>

VaultNext == VaultSearch \/ Return

VaultSpec == VaultInit /\ [][VaultNext]_vars

(***************************************************************************)
(* The decrypt functions on their own: a logged-in client whose two        *)
(* decrypt functions are applied, under its working key pair, to cipher    *)
(* strings that a server can hand out.                                     *)
(***************************************************************************)
CryptoTexts == {"", "GitHub", "octocat"}

\* "2.<iv>|<data>": the MAC sub-part cut off
StripMac(cs) == [cs EXCEPT !.cipher_parts = SubSeq(@, 1, 2)]

\* "2.<iv>|<data>|<mac>|<more>": one more '|' sub-part
ExtraPart(cs) ==
    [cs EXCEPT !.cipher_parts =
                 Append(@, [t |-> "bytes", utf8 |-> FALSE, s |-> "more",
                            len |-> 8])]

\* "2.<iv>": a single sub-part
OnlyIv(cs) == [cs EXCEPT !.cipher_parts = SubSeq(@, 1, 1)]

\* "2.<iv>|<data>|<mac>.<more>": three '.' parts
ExtraDot(cs) == [cs EXCEPT !.dots = 3]

\* the same sub-parts under another encType
WithType(cs, enc_type) == [cs EXCEPT !.encType = enc_type]

\* a field of acct whose block is not PKCS7-padded, with the MAC of that
\* very block
BadPadField(acct, n, left, pad) ==
    LET data == BadlyPadded(VaultKeys(acct)[1], Iv(n), Utf8(left), pad)
    IN  [t |-> "cs", dots |-> 2, encType |-> 2,
         cipher_parts |-> <<Iv(n), data,
                            Hmac(VaultKeys(acct)[2], MacInput(Iv(n), data))>>]

\* last byte 0, last byte above the block size (both leave nothing), and a
\* last byte 3 after bytes that are not 3 (leaves the block cut by 3)
BadPads(acct) ==
    {BadPadField(acct, 1, "", 0), BadPadField(acct, 1, "", 17),
     BadPadField(acct, 1, "GitHub", 3)}

CryptoStrings(acct) ==
    LET good == {Field(acct, 1, text) : text \in CryptoTexts}
    IN  UNION {{c, FlipMac(c), StripMac(c), ExtraPart(c), OnlyIv(c),
                ExtraDot(c), WithType(c, 1), WithType(StripMac(c), 0)}
               : c \in good}
        \cup {ForeignField(1, text) : text \in CryptoTexts}
        \cup BadPads(acct)
        \cup {Malformed, None}

DecryptFns == {"_decrypt_string", "_decrypt_bytes_with_keys"}

\* the data sub-part was encrypted under a key that is not the client's
UnderForeignKey(self, cs) ==
    /\ Truthy(cs)
    /\ Len(cs.cipher_parts) >= 2
    /\ cs.cipher_parts[2].key # Slice(self.enc_key, 0, 32)

CryptoInit == VaultInit

Decrypt ==
    /\ last = Idle
    /\ \E cs \in CryptoStrings(client.access_token.acct), fn \in DecryptFns :
       \E g \in IF UnderForeignKey(client, cs) THEN GarbageOutcomes
                ELSE {NoGarbage} :
         LET r == IF fn = "_decrypt_string"
                  THEN _decrypt_string(client, cs, g)
                  ELSE _decrypt_bytes_with_keys(cs, client.enc_key,
                                                client.mac_key, g)
         IN  /\ requests' = <<>>
             /\ log' = r.log
             /\ decs' = {DecCall(fn, cs, client.mac_key, r.out)}
             /\ last' = [Call("decrypt", get_status(client), None, None, "-",
                              "-", Ret(TRUE, "value"))
                         EXCEPT !.g = g]
             /\ UNCHANGED <<client, store>>

CryptoNext == Decrypt \/ Return

CryptoSpec == CryptoInit /\ [][CryptoNext]_vars

(***************************************************************************)
(* Properties.                                                             *)
(***************************************************************************)
\* the MAC component of a recorded decrypt call failed against its MAC key
MacMismatch(d) ==
    /\ Truthy(d.cs)
    /\ d.cs.dots = 2
    /\ Len(d.cs.cipher_parts) > 2
    /\ Truthy(d.mac_key)
    /\ d.cs.cipher_parts[3]
         # Hmac(d.mac_key, MacInput(d.cs.cipher_parts[1], d.cs.cipher_parts[2]))

\* the account a session belongs to
AccountOf(self) == Lower(self.email.s)

\* C1: a decrypt call (raw-bytes or string variant) on a cipher string whose
\* MAC does not match under the available MAC key returns failure, never a
\* plaintext.
C1_MacMismatchFails ==
    \A d \in decs : MacMismatch(d) => d.out = None

\* C2: unlock on a Locked session, when the derived master key does not
\* verify the wrapped key, returns (False, "Incorrect password") and leaves
\* the session locked without master or symmetric key; from any Locked state
\* a wrong password and a corrupted wrapped key give the same return value
\* and the same client and config.
C2_WrongPasswordStaysLocked ==
    /\ (/\ last.op = "unlock"
        /\ last.from = "locked"
        /\ \E d \in decs : d.fn = "_decrypt_bytes_with_keys" /\ MacMismatch(d))
       => /\ last.ret = Ret(FALSE, "Incorrect password")
          /\ get_status(client) = "locked"
          /\ client.master_key = None
          /\ client.symmetric_key = None
    /\ get_status(client) = "locked"
       => \A p \in Passwords \ {RealPassword(AccountOf(client))},
             pre \in PreloginModes :
            LET wrong == unlock(client, store, Str(p), pre, "wrapped_key",
                                "none", NoGarbage)
                corrupt == unlock(client, store,
                                  Str(RealPassword(AccountOf(client))), pre,
                                  "flipped_mac", "none", NoGarbage)
            IN  /\ wrong.ret = corrupt.ret
                /\ wrong.self = corrupt.self
                /\ wrong.config = corrupt.config

C2_Witness ==
    /\ last.op = "unlock"
    /\ last.from = "locked"
    /\ last.prof = "wrapped_key"
    /\ last.password # Str(RealPassword(AccountOf(client)))
    /\ \E d \in decs : MacMismatch(d)
    /\ last.ret.msg = "Incorrect password"

\* C3: from every Locked state whose persisted kdf_iterations is the
\* account's real count, unlock with the correct password, the pre-login (if
\* asked) and the profile endpoint answering, succeeds and leaves the session
\* unlocked with symmetric_key, enc_key and mac_key set.
C3_CorrectPasswordUnlocks ==
    [][(/\ last'.op = "unlock"
        /\ get_status(client) = "locked"
        /\ "bitwarden_session" \in DOMAIN store
        /\ store.bitwarden_session.kdf_iterations
             = RealIterations(AccountOf(client))
        /\ last'.password = Str(RealPassword(AccountOf(client)))
        /\ last'.pre \in {"-", "200"}
        /\ last'.prof = "wrapped_key")
       => /\ last'.ret.ok
          /\ get_status(client') = "unlocked"
          /\ Truthy(client'.symmetric_key)
          /\ Truthy(client'.enc_key)
          /\ Truthy(client'.mac_key)]_vars

\* the session record _save_session writes for a client
SessionOf(self) ==
    [access_token   |-> self.access_token,
     refresh_token  |-> self.refresh_token,
     email          |-> self.email,
     identity_url   |-> self.identity_url,
     api_url        |-> self.api_url,
     kdf_iterations |-> self.kdf_iterations]

\* C4: whenever login returns success the tokens are stored, the
\* SymmetricKey is decrypted and the working pair set, the persisted record
\* holds exactly the in-memory session, and the session is unlocked with
\* search_items able to decrypt the account's items.
C4_LoginSuccessIsUnlocked ==
    (last.op = "login" /\ last.ret.ok)
    => /\ Truthy(client.access_token)
       /\ Truthy(client.refresh_token)
       /\ client.symmetric_key = SymKey(AccountOf(client))
       /\ <<client.enc_key, client.mac_key>> = VaultKeys(AccountOf(client))
       /\ "bitwarden_session" \in DOMAIN store
       /\ store.bitwarden_session = SessionOf(client)
       /\ get_status(client) = "unlocked"

\* C5: a login that does not succeed (non-200 token response, or a step
\* raising), started from LoggedOut, leaves the session logged out and
\* creates no persisted session record.
C5_FailedLoginStaysLoggedOut ==
    (last.op = "login" /\ last.from = "logged_out" /\ ~last.ret.ok)
    => /\ get_status(client) = "logged_out"
       /\ "bitwarden_session" \notin DOMAIN store

\* C6: no request of login or unlock carries the raw master password; the
\* password field of the token request is the derived hash, the pre-login
\* request carries only the e-mail and the profile request only the bearer
\* token.
C6_PasswordNeverSent ==
    last.op \in {"login", "unlock"}
    => \A i \in DOMAIN requests :
         LET r == requests[i]
         IN  /\ r.bearer # last.password
             /\ \A f \in DOMAIN r.body : r.body[f] # last.password
             /\ r.endpoint = "/connect/token"
                => r.body.password
                     = [t |-> "b64",
                        of |-> _derive_key(
                                 _make_master_key(last.password, last.email,
                                                  client.kdf_iterations),
                                 last.password, 1)]
             /\ r.endpoint = "/accounts/prelogin"
                => DOMAIN r.body = {"email"} /\ r.bearer = None
             /\ r.endpoint = "/accounts/profile"
                => r.body = <<>> /\ r.bearer = client.access_token

C6_Witness ==
    /\ last.op = "login"
    /\ Len(requests) = 3
    /\ requests[2].endpoint = "/connect/token"
    /\ requests[2].body.password.t = "b64"

\* C7: the config holds, besides the device id, only the six session
\* fields: tokens, e-mail, server URLs and iteration count; never a key, the
\* password or the password hash.
C7_StoreHoldsNoSecrets ==
    /\ DOMAIN store \subseteq {"bitwarden_session", "bitwarden_device_id"}
    /\ "bitwarden_device_id" \in DOMAIN store
       => store.bitwarden_device_id = DeviceUuid
    /\ "bitwarden_session" \in DOMAIN store
       => LET session == store.bitwarden_session
          IN  /\ DOMAIN session = SessionFields
              /\ session.kdf_iterations \in Nat
              /\ session.access_token.t = "token"
              /\ session.refresh_token.t = "token"
              /\ session.email \in {Str(e) : e \in Emails}
              /\ session.identity_url = DEFAULT_IDENTITY_URL
              /\ session.api_url = DEFAULT_API_URL

C7_Witness ==
    /\ "bitwarden_session" \in DOMAIN store
    /\ "bitwarden_device_id" \in DOMAIN store
    /\ get_status(client) = "unlocked"
    /\ Truthy(client.symmetric_key)
    /\ last.op = "search"

\* the key material a client holds or derives from what it holds
KeysOf(self) ==
    ({self.master_key, self.symmetric_key, self.enc_key, self.mac_key}
       \cup (IF self.master_key = None THEN {}
             ELSE {_expand_key(self.master_key)[1],
                   _expand_key(self.master_key)[2]}))
    \ {None}

\* C8: nothing printed by an operation contains bytes of the master key,
\* the symmetric key or a derived enc/mac key.
C8_NoKeyBytesLogged ==
    \A e \in log : \A k \in KeysOf(client) : e.value # Slice(k, 0, 8)

\* C9: lock from Unlocked or Locked leaves the four keys absent and the
\* session locked, and changes neither the tokens, the e-mail, the
\* iteration count, the server URLs nor the config.
C9_LockFrame ==
    [][(last'.op = "lock" /\ get_status(client) \in {"unlocked", "locked"})
       => /\ client'.master_key = None
          /\ client'.symmetric_key = None
          /\ client'.enc_key = None
          /\ client'.mac_key = None
          /\ get_status(client') = "locked"
          /\ client'.access_token = client.access_token
          /\ client'.refresh_token = client.refresh_token
          /\ client'.email = client.email
          /\ client'.kdf_iterations = client.kdf_iterations
          /\ client'.identity_url = client.identity_url
          /\ client'.api_url = client.api_url
          /\ store' = store]_vars

C9_Witness ==
    /\ last.op = "lock"
    /\ last.from = "unlocked"
    /\ get_status(client) = "locked"
    /\ "bitwarden_session" \in DOMAIN store

HasSavedToken(config) ==
    /\ "bitwarden_session" \in DOMAIN config
    /\ Truthy(Get(config.bitwarden_session, "access_token", None))

\* C11: a client constructed at a restart is never unlocked: it is locked
\* when the saved session record has an access token and logged out
\* otherwise, and it holds no key, whatever the status of the previous
\* process was.
C11_RestartNeverUnlocked ==
    last.op = "restart"
    => /\ get_status(client) # "unlocked"
       /\ get_status(client)
            = (IF HasSavedToken(store) THEN "locked" ELSE "logged_out")
       /\ client.master_key = None
       /\ client.symmetric_key = None
       /\ client.enc_key = None
       /\ client.mac_key = None

C11_Witness ==
    /\ last.op = "restart"
    /\ last.from = "unlocked"
    /\ HasSavedToken(store)
    /\ get_status(client) = "locked"

\* C12: while the session is logged out or locked, search_items returns
\* an empty list and sync returns failure, neither sending a request to
\* /sync; while it is unlocked, each search_items call sends exactly one
\* authenticated request to /sync.
C12_SyncRequiresUnlocked ==
    /\ (last.op \in {"search", "sync"}
        /\ last.from \in {"logged_out", "locked"})
       => /\ requests = <<>>
          /\ last.op = "search" => last.items = <<>>
          /\ last.op = "sync" => ~last.ret.ok
    /\ (last.op = "search" /\ last.from = "unlocked")
       => /\ Len(requests) = 1
          /\ requests[1] = Request("/sync", <<>>, client.access_token)

\* the field d[k] of a server dict, under either spelling of k
FieldOf(d, k) == GetEither(d, k, Camel(k))

\* the text of a field whose decryption succeeds, None when it fails: on a
\* parse error, a MAC mismatch, an unsupported type or bytes that are not
\* UTF-8
Strict(self, cs, g) ==
    LET d == _decrypt_bytes_with_keys(cs, self.enc_key, self.mac_key, g).out
    IN  IF d = None \/ Decode(d) = Raise THEN None ELSE Decode(d)

\* the ciphers of the last /sync response that are not deleted
LiveCiphers == SelectSeq(last.ciphers, LAMBDA c : ~IsDeleted(c))

\* C13: every non-deleted item of the collection is returned, a field whose
\* decryption fails being empty (the name "Unknown") and every other field
\* holding its decrypted text.
C13_PartialFailure ==
    (last.op = "search" /\ last.mode = "200" /\ last.query = "")
    => /\ Len(last.items) = Len(LiveCiphers)
       /\ \A i \in DOMAIN LiveCiphers :
            LET c == LiveCiphers[i]
                item == last.items[i]
                login_ == SubDict(c, "Login", "login")
                card == SubDict(c, "Card", "card")
                identity == SubDict(c, "Identity", "identity")
                fields == SubDict(c, "Fields", "fields")
                Text(d, k) == StrOr(Strict(client, FieldOf(d, k), last.g),
                                    Str(""))
            IN  /\ item.name = StrOr(Strict(client, FieldOf(c, "Name"), last.g),
                                     Str("Unknown"))
                /\ item.notes = Text(c, "Notes")
                /\ TypeOf(c) = 1
                   => /\ item.username = Text(login_, "Username")
                      /\ item.password = Text(login_, "Password")
                /\ TypeOf(c) = 3
                   => /\ item.cardholder = Text(card, "CardholderName")
                      /\ item.number_full = Text(card, "Number")
                /\ TypeOf(c) = 4
                   => /\ item.first_name = Text(identity, "FirstName")
                      /\ item.last_name = Text(identity, "LastName")
                      /\ item.phone = Text(identity, "Phone")
                /\ Len(fields) > 0
                   => \A j \in DOMAIN fields :
                        /\ item.custom_fields[j].name
                             = Strict(client, FieldOf(fields[j], "Name"), last.g)
                        /\ item.custom_fields[j].value
                             = Strict(client, FieldOf(fields[j], "Value"),
                                      last.g)

\* the ids of a sequence of server ciphers or of returned items
Ids(seq) == [i \in DOMAIN seq |-> GetEither(seq[i], "Id", "id")]

\* C14: search_items returns no item whose deleted date is set, under
\* either spelling, and returns the non-deleted items whose displayed name
\* matches the query, each decrypted, in the order of the collection.
C14_DeletedSkippedOrderKept ==
    (last.op = "search" /\ last.mode = "200")
    => /\ \A i \in DOMAIN last.items :
            \A j \in DOMAIN last.ciphers :
              (\/ Truthy(Get(last.ciphers[j], "DeletedDate", None))
               \/ Truthy(Get(last.ciphers[j], "deletedDate", None)))
              => last.items[i].id # GetEither(last.ciphers[j], "Id", "id")
       /\ Ids(last.items)
            = Ids(SelectSeq(LiveCiphers,
                    LAMBDA c :
                      Contains(LowerText(_decrypt_cipher(client, c,
                                                         last.g).name.s),
                               LowerText(last.query))))
       /\ \A i \in DOMAIN last.items :
            \E j \in DOMAIN last.ciphers :
              last.items[i] = _decrypt_cipher(client, last.ciphers[j], last.g)

C14_Witness ==
    /\ last.op = "search"
    /\ last.mode = "200"
    /\ Len(last.ciphers) = 2
    /\ Truthy(Get(last.ciphers[1], "deletedDate", None))
    /\ Len(last.items) = 1
    /\ last.items[1].id = last.ciphers[2].id

\* the text a genuine cipher string was made from
PlainOf(cs) == cs.cipher_parts[2].pt.s

\* the returned items that are cards, each with the Number field of its
\* cipher (with an empty query the items follow the non-deleted ciphers)
CardsReturned ==
    {<<last.items[i], FieldOf(SubDict(LiveCiphers[i], "Card", "card"),
                              "Number")>> :
       i \in {k \in DOMAIN last.items : last.items[k].item_type = 3}}

\* the last 4 characters of a text, the whole text when it has fewer
Last4(txt) ==
    IF Len(txt) > 4 THEN SubSeq(txt, Len(txt) - 3, Len(txt)) ELSE txt

\* C15 as stated: for every Card item number_full is the complete
\* decrypted number and number_masked is the 12-bullet mask followed by the
\* last 4 characters of the number.
C15_MaskedAlways ==
    (last.op = "search" /\ last.mode = "200" /\ last.query = "")
    => \A p \in CardsReturned :
         /\ p[1].number_full
              = (IF Truthy(p[2]) THEN Str(PlainOf(p[2])) ELSE Str(""))
         /\ p[1].number_masked = Str(Bullets \o Last4(p[1].number_full.s))

\* C15 (amended): for every Card item number_full is the complete decrypted
\* number; when the number has more than 4 characters number_masked is the
\* 12-bullet mask followed by its last 4 characters, so that no other
\* character of the number appears in it; a number of at most 4 characters
\* is number_masked itself, without the mask.
C15_MaskedWhenLong ==
    (last.op = "search" /\ last.mode = "200" /\ last.query = "")
    => \A p \in CardsReturned :
         /\ p[1].number_full
              = (IF Truthy(p[2]) THEN Str(PlainOf(p[2])) ELSE Str(""))
         /\ Len(p[1].number_full.s) > 4
            => /\ p[1].number_masked = Str(Bullets \o Last4(p[1].number_full.s))
               /\ Len(p[1].number_masked.s) = Len(Bullets) + 4
         /\ Len(p[1].number_full.s) <= 4
            => p[1].number_masked = p[1].number_full

C15_Witness ==
    /\ last.op = "search"
    /\ last.query = ""
    /\ Len(last.items) = 1
    /\ last.items[1].item_type = 3
    /\ last.items[1].number_full = Str("4111111111111111")
    /\ last.items[1].number_masked = Str(Bullets \o "1111")

\* C16: search_items(query) returns exactly the items of search_items("")
\* whose displayed name contains the query without regard to case; a query
\* found only in another field of an item does not return it.
C16_FilterOnNameOnly ==
    (last.op = "search" /\ last.mode = "200")
    => last.items
         = SelectSeq(search_items(client, "", last.mode, last.ciphers,
                                  last.g).items,
                     LAMBDA item : Contains(LowerText(item.name.s),
                                            LowerText(last.query)))

C16_Witness ==
    /\ last.op = "search"
    /\ last.mode = "200"
    /\ last.query = "octo"
    /\ Len(last.ciphers) = 1
    /\ GetEither(last.ciphers[1], "Id", "id") = Str("login")
    /\ search_items(client, "", last.mode, last.ciphers, last.g).items[1].username
         = Str("octocat")
    /\ last.items = <<>>

\* C17: no operation ends with an exception that it does not handle; each
\* call returns to its caller.
C17_NoUnhandledException == last.ret # Unhandled

\* C18: an unlock that fails because the profile request raised or was
\* answered with a status other than 200 does not report "Incorrect
\* password"; that is reported only when the wrapped key was received and
\* did not decrypt.
C18_NetworkErrorDistinct ==
    last.op = "unlock"
    => /\ (last.prof \in {"non200", "exception"} /\ ~last.ret.ok)
          => last.ret.msg # "Incorrect password"
       /\ last.ret.msg = "Incorrect password"
          => /\ last.prof \in {"wrapped_key", "flipped_mac"}
             /\ \E d \in decs : /\ d.fn = "_decrypt_bytes_with_keys"
                                /\ d.out = None

\* C19: get_status() becomes "unlocked" only in a login or unlock call that
\* returns success.
C19_UnlockedOnlyBySuccess ==
    [][(get_status(client) # "unlocked" /\ get_status(client') = "unlocked")
       => (last'.op \in {"login", "unlock"} /\ last'.ret.ok)]_vars

\* C20: whenever get_status() is not "unlocked", master_key, symmetric_key,
\* enc_key and mac_key are all absent.
C20_KeysOnlyWhileUnlocked ==
    get_status(client) # "unlocked"
    => /\ client.master_key = None
       /\ client.symmetric_key = None
       /\ client.enc_key = None
       /\ client.mac_key = None

\* C21: get_status() is "unlocked" exactly when the access token, the
\* master key and the decrypted SymmetricKey are all present, that is,
\* exactly when search_items passes its own precondition check.
C21_UnlockedIffSearchable ==
    /\ get_status(client) = "unlocked"
       <=> (/\ Truthy(client.access_token)
            /\ Truthy(client.master_key)
            /\ Truthy(client.symmetric_key))
    /\ get_status(client) = "unlocked"
       <=> ~(~Truthy(client.access_token) \/ ~Truthy(client.symmetric_key))

\* a dict in the lower-camel spelling, the capitalized value of a field
\* taking precedence where the dict carries both spellings
OfficialFirst(d) ==
    [k \in {Camel(x) : x \in DOMAIN d} |->
       IF \E x \in DOMAIN d : x # k /\ Camel(x) = k
       THEN d[CHOOSE x \in DOMAIN d : x # k /\ Camel(x) = k]
       ELSE d[k]]

\* OfficialFirst on a cipher, its Login, Card or Identity dict, its Uris
\* and its custom Fields
Canonical(cipher) ==
    LET top == OfficialFirst(cipher)
        Sub(d) == OfficialFirst(d)
        List(l) == [i \in DOMAIN l |-> OfficialFirst(l[i])]
    IN  [k \in DOMAIN top |->
           CASE k = "login" ->
                  LET l == Sub(top[k])
                  IN  [j \in DOMAIN l |->
                         IF j = "uris" THEN List(l[j]) ELSE l[j]]
             [] k \in {"card", "identity"} -> Sub(top[k])
             [] k = "fields" -> List(top[k])
             [] OTHER -> top[k]]

\* C22: a collection gives the same records in either spelling of its field
\* names, and where an object carries both spellings of a field the
\* capitalized value is the one used, falsy or not.
C22_OfficialFirst ==
    (last.op = "search" /\ last.mode = "200" /\ last.query = "")
    => /\ Len(last.items) = Len(LiveCiphers)
       /\ \A i \in DOMAIN LiveCiphers :
            last.items[i]
              = _decrypt_cipher(client, Canonical(LiveCiphers[i]), last.g)

\* C23: a decrypted SymmetricKey whose length is neither 32 nor 64 bytes
\* never yields an enc/mac pair, and never leaves login or unlock reporting
\* success.
C23_OddKeyRejected ==
    /\ (Truthy(client.symmetric_key)
        /\ client.symmetric_key.len \notin {32, 64})
       => (client.enc_key = None /\ client.mac_key = None)
    /\ (last.op \in {"login", "unlock"} /\ last.ret.ok
        /\ Truthy(client.symmetric_key))
       => client.symmetric_key.len \in {32, 64}

\* the master key that the password and the e-mail of the last call give
\* under the iteration count the pre-login endpoint advertises for the e-mail
AdvertisedKey(email_, password_) ==
    _make_master_key(password_, email_, RealIterations(Lower(email_.s)))

\* C26: the master key of a login is derived with the iteration count that
\* the pre-login endpoint advertises for the e-mail of that call, never with
\* a count left in the client by a loaded session or an earlier attempt.
C26_LoginUsesAdvertisedCount ==
    (last.op = "login" /\ last.pre # "exception")
    => client.master_key = AdvertisedKey(last.email, last.password)

C28_UnlockSuccessIsFresh ==
    (last.op = "unlock" /\ last.ret.ok)
    => /\ Len(requests) > 0
       /\ requests[Len(requests)].endpoint = "/accounts/profile"
       /\ \E d \in decs :
            /\ d.fn = "_decrypt_bytes_with_keys"
            /\ d.out # None
            /\ d.out = client.symmetric_key
            /\ d.mac_key = _expand_key(client.master_key)[2]

\* C30: a login that returns failure leaves access_token, refresh_token,
\* email, kdf_iterations and the four key fields as they were.
C30_FailedLoginFrame ==
    [][(last'.op = "login" /\ ~last'.ret.ok)
       => /\ client'.access_token = client.access_token
          /\ client'.refresh_token = client.refresh_token
          /\ client'.email = client.email
          /\ client'.kdf_iterations = client.kdf_iterations
          /\ client'.master_key = client.master_key
          /\ client'.symmetric_key = client.symmetric_key
          /\ client'.enc_key = client.enc_key
          /\ client'.mac_key = client.mac_key
    ]_vars

\* a cipher string that splits on '.' into exactly 2 parts, the second of
\* which splits on '|' into 2 or 3 sub-parts
WellFormed(cs) == cs.dots = 2 /\ Len(cs.cipher_parts) \in {2, 3}

ParseError == [t |-> "ParseError"]

\* C24: a cipher string that is not of the form of two '.' parts with 2 or 3
\* '|' sub-parts is answered with a parse error: it is neither decrypted nor
\* reported as an absent value.
C24_MalformedIsParseError ==
    \A d \in decs :
      (Truthy(d.cs) /\ ~WellFormed(d.cs)) => d.out = ParseError

\* the last byte of the block that AES-CBC decryption gave for d, and
\* whether the final bytes all equal it
RawPad(d) ==
    LET data == d.cs.cipher_parts[2]
    IN  IF data.key = Slice(client.enc_key, 0, 32)
             /\ data.iv = d.cs.cipher_parts[1]
        THEN [pad |-> data.pad, ok |-> data.padok]
        ELSE [pad |-> last.g.pad, ok |-> FALSE]

\* C25: a decrypt function returns a value only if the last byte p of the
\* decrypted block satisfies 1 <= p <= 16 and the final p bytes all equal p.
C25_PaddingValidated ==
    \A d \in decs :
      d.out # None => (RawPad(d).ok /\ RawPad(d).pad \in 1..16)

\* C29: every cipher string of encType 2 that a decrypt function turns into
\* a value carries a MAC sub-part that equals the HMAC of iv + data under
\* the MAC key, and the MAC key is set.
C29_Type2MacVerified ==
    \A d \in decs :
      (Truthy(d.cs) /\ d.cs.encType = 2 /\ d.out # None)
      => /\ Len(d.cs.cipher_parts) >= 3
         /\ Truthy(d.mac_key)
         /\ d.cs.cipher_parts[3]
              = Hmac(d.mac_key, MacInput(d.cs.cipher_parts[1],
                                         d.cs.cipher_parts[2]))

====
